---- MODULE Spec2Model ----
(***************************************************************************)
(* KnowledgeAtlas: the in-memory knowledge graph (data_model.py), the      *)
(* editing flows of the Streamlit app (app.py), the visibility /           *)
(* rendering pipeline (visualization.py) and the pickle and JSON           *)
(* persistence (persistence.py).                                           *)
(*                                                                         *)
(* The graph is a networkx MultiDiGraph.  It is modelled as                *)
(*   nodes : a function from the names in the graph to their attributes    *)
(*   edges : for every ordered pair, the sequence of parallel edges in     *)
(*           insertion order (networkx's key dict _adj[u][v]), each with   *)
(*           its key and its relationship.                                 *)
(* Lists whose order no claim observes (neighbours, rendered nodes) are    *)
(* sets; per-pair edge order is kept because remove_edge depends on it.    *)
(***************************************************************************)
EXTENDS Integers, Sequences, FiniteSets, TLC

\* graph:  the networkx graph the session works on
\* ret:    the record of the last call
\* holder: what st.session_state.graph is: the KnowledgeGraph that wraps
\*         graph, the bare MultiDiGraph graph, or None
\* disk:   the file knowledge_graph.pkl
\* selection: st.session_state.selected_nodes and selected_edges
VARIABLES graph, ret, holder, disk, selection

vars == <<graph, ret, holder, disk, selection>>

----------------------------------------------------------------------------
(* Bounds of the model *)

\* total number of edges the store may hold at once
MaxEdges == 2
\* total number of edges of a graph handed to the visualization
MaxVizEdges == 2

Names == {"A", "B", "C"}
\* the names the Graph Store operations and the sidebar flows are given
StoreNames == {"A", "B"}
Relationships == {"related_to", "depends_on"}
Pairs == Names \X Names

----------------------------------------------------------------------------
(* Python values *)

\* Optional[T]: None is the empty tuple, a present value x is <<x>>
None == <<>>
Some(x) == <<x>>
IsNone(o) == o = <<>>
\* Python truthiness of an optional collection: None and empty are falsy
Truthy(o) == o # <<>> /\ o[1] # {}

\* NodeMetadata(url, description); the timestamps are class-level defaults
NodeMetadata(url, description) == [url |-> url, description |-> description]
MetadataInputs == {NodeMetadata("", ""), NodeMetadata("u", "d")}

\* attributes of a node that networkx creates on its own (no type, no level,
\* no metadata): data.get(...) is None for each; -1 stands for the None level
NoAttrs == [type |-> "None", level |-> -1, metadata |-> NodeMetadata("", "")]

\* (type, level) pairs the forms are filled with
NodeProfiles == {[type |-> "main_topic", level |-> 0], [type |-> "paper", level |-> 1]}

EmptyGraph == [nodes |-> [m \in {} |-> NoAttrs], edges |-> [p \in Pairs |-> << >>]]

NodeSet(G) == DOMAIN G.nodes

\* no file knowledge_graph.pkl in the working directory
NoFile == [exists |-> FALSE, readable |-> FALSE, graph |-> EmptyGraph]

\* selected_nodes = set(), selected_edges = set() (app.py 16-19)
NoSelection == [nodes |-> {}, edges |-> {}]

\* a session whose graph is the KnowledgeGraph of app.py 14-15, started in
\* a directory without a saved file: the load of app.py 42-44 is skipped in
\* every run
NoSavedFile == holder = "KnowledgeGraph" /\ disk = NoFile

RECURSIVE SumLen(_, _)
SumLen(E, ps) ==
    IF ps = {} THEN 0
    ELSE LET p == CHOOSE q \in ps : TRUE IN Len(E[p]) + SumLen(E, ps \ {p})

\* len(graph.edges)
NumEdges(G) == SumLen(G.edges, Pairs)

----------------------------------------------------------------------------
(* networkx.MultiDiGraph primitives used by the repository *)

\* graph.add_node(n, **attrs): creates n, or updates the attributes of n
nx_add_node(G, n, attrs) ==
    [G EXCEPT !.nodes = [m \in NodeSet(G) \cup {n} |-> IF m = n THEN attrs ELSE G.nodes[m]]]

\* new_edge_key: len(keydict), incremented while it is already a key
RECURSIVE new_edge_key_from(_, _)
new_edge_key_from(keys, k) == IF k \in keys THEN new_edge_key_from(keys, k + 1) ELSE k

new_edge_key(keydict) ==
    new_edge_key_from({keydict[i].key : i \in 1..Len(keydict)}, Len(keydict))

\* graph.add_edge(u, v, relationship=rel): endpoints that are missing are
\* created without attributes; the edge gets a fresh key and is appended
nx_add_edge(G, u, v, rel) ==
    LET ns == [m \in NodeSet(G) \cup {u, v} |->
                 IF m \in NodeSet(G) THEN G.nodes[m] ELSE NoAttrs]
        e  == [key |-> new_edge_key(G.edges[<<u, v>>]), relationship |-> rel]
    IN [nodes |-> ns, edges |-> [G.edges EXCEPT ![<<u, v>>] = Append(@, e)]]

\* graph.remove_node(n): n and every edge out of or into n (n is in the graph)
nx_remove_node(G, n) ==
    [nodes |-> [m \in NodeSet(G) \ {n} |-> G.nodes[m]],
     edges |-> [p \in Pairs |-> IF p[1] = n \/ p[2] = n THEN << >> ELSE G.edges[p]]]

\* graph.remove_edge(u, v) with key=None: keydict.popitem(), the edge that
\* was added last between u and v (at least one exists)
nx_remove_edge(G, u, v) ==
    [G EXCEPT !.edges[<<u, v>>] = SubSeq(@, 1, Len(@) - 1)]

\* graph.neighbors(n) of a directed graph: the successors of n
nx_neighbors(G, n) == {m \in Names : G.edges[<<n, m>>] # << >>}
nx_successors(G, n) == {m \in Names : G.edges[<<n, m>>] # << >>}
nx_predecessors(G, n) == {m \in Names : G.edges[<<m, n>>] # << >>}

----------------------------------------------------------------------------
(* data_model.KnowledgeGraph; every operation yields the new graph and its
   return value *)

\* faulty variant: no membership test, networkx overwrites the attributes
add_node_buggy_overwrite(G, name, type, level, metadata) ==
    [graph |-> nx_add_node(G, name, [type |-> type, level |-> level, metadata |-> metadata]),
     ok |-> name \notin NodeSet(G)]

add_node(G, name, type, level, metadata) ==
    IF name \notin NodeSet(G)
    THEN [graph |-> nx_add_node(G, name, [type |-> type, level |-> level, metadata |-> metadata]),
          ok |-> TRUE]
    ELSE [graph |-> G, ok |-> FALSE]

\* faulty variant: no endpoint test, networkx creates the missing endpoints
add_edge_unguarded(G, source, target, relationship) ==
    [graph |-> nx_add_edge(G, source, target, relationship),
     ok |-> source \in NodeSet(G) /\ target \in NodeSet(G)]

\* faulty variant: an edge with the same relationship is not added again
add_edge_dedup(G, source, target, relationship) ==
    IF source \notin NodeSet(G) \/ target \notin NodeSet(G)
    THEN [graph |-> G, ok |-> FALSE]
    ELSE IF \E i \in 1..Len(G.edges[<<source, target>>]) :
               G.edges[<<source, target>>][i].relationship = relationship
         THEN [graph |-> G, ok |-> TRUE]
         ELSE [graph |-> nx_add_edge(G, source, target, relationship), ok |-> TRUE]

add_edge(G, source, target, relationship) ==
    IF source \notin NodeSet(G) \/ target \notin NodeSet(G)
    THEN [graph |-> G, ok |-> FALSE]
    ELSE [graph |-> nx_add_edge(G, source, target, relationship), ok |-> TRUE]

\* faulty variant: an empty field of the new metadata keeps the old value
update_node_metadata_merging(G, node, metadata) ==
    IF node \in NodeSet(G)
    THEN LET current == G.nodes[node].metadata
             merged == NodeMetadata(
                         IF metadata.url = "" THEN current.url ELSE metadata.url,
                         IF metadata.description = "" THEN current.description
                         ELSE metadata.description)
         IN [graph |-> [G EXCEPT !.nodes[node].metadata = merged], ok |-> TRUE]
    ELSE [graph |-> G, ok |-> FALSE]

update_node_metadata(G, node, metadata) ==
    IF node \in NodeSet(G)
    THEN [graph |-> [G EXCEPT !.nodes[node].metadata = metadata], ok |-> TRUE]
    ELSE [graph |-> G, ok |-> FALSE]

\* get_edges_between: the attribute records of the edges source -> target.
\* graph.get_edge_data is None when there is no such edge, and None.values()
\* raises: raised is TRUE in that case and there is no list.
get_edges_between(G, source, target) ==
    IF source \in NodeSet(G) /\ target \in NodeSet(G)
    THEN IF G.edges[<<source, target>>] = << >>
         THEN [raised |-> TRUE, edges |-> << >>]
         ELSE [raised |-> FALSE,
               edges |-> [i \in 1..Len(G.edges[<<source, target>>]) |->
                            [relationship |-> G.edges[<<source, target>>][i].relationship]]]
    ELSE [raised |-> FALSE, edges |-> << >>]

\* get_connected_nodes(node, relationship): relationship is Optional
get_connected_nodes(G, node, relationship) ==
    IF node \notin NodeSet(G) THEN {}
    ELSE {neighbor \in nx_neighbors(G, node) :
            LET edges == get_edges_between(G, node, neighbor).edges
            IN IsNone(relationship)
               \/ \E i \in 1..Len(edges) : edges[i].relationship = relationship[1]}

----------------------------------------------------------------------------
(* app.py: the flows of the sidebar.  Each handler is one action; ret is the
   record of the last call: the operation, its arguments, whether it
   succeeded, and what it returned or observed. *)

NoOut == [none |-> TRUE]

\* list(graph.edges(selected_node, data=True)): the edges going OUT of the
\* node (edges of a directed graph are its out-edges), as (source, target,
\* relationship) triples, pair by pair and in key order within a pair
RECURSIVE out_edges_to(_, _, _)
out_edges_to(G, n, targets) ==
    IF targets = {} THEN << >>
    ELSE LET t == CHOOSE x \in targets : TRUE
             es == G.edges[<<n, t>>]
         IN [i \in 1..Len(es) |-> <<n, t, es[i].relationship>>]
            \o out_edges_to(G, n, targets \ {t})

old_edges(G, n) == out_edges_to(G, n, Names)

\* for source, target, data in old_edges: add_edge(f(source), f(target), rel)
RECURSIVE restore_edges(_, _, _, _)
restore_edges(G, es, old, new) ==
    IF es = << >> THEN G
    ELSE LET e == Head(es)
             new_source == IF e[1] = old THEN new ELSE e[1]
             new_target == IF e[2] = old THEN new ELSE e[2]
         IN restore_edges(add_edge(G, new_source, new_target, e[3]).graph, Tail(es), old, new)

\* "Update Node" (app.py 157-192) for a node selected in the graph
update_node(G, selected_node, new_name, new_type, new_level, metadata) ==
    LET node_data == G.nodes[selected_node]
        saved == old_edges(G, selected_node)
    IN IF new_name = selected_node
       THEN [graph |-> [G EXCEPT !.nodes[selected_node] =
                          [type |-> new_type, level |-> new_level, metadata |-> metadata]],
             ok |-> TRUE]
       ELSE LET removed == nx_remove_node(G, selected_node)
                added == add_node(removed, new_name, new_type, new_level, metadata)
            IN IF added.ok
               THEN [graph |-> restore_edges(added.graph, saved, selected_node, new_name),
                     ok |-> TRUE]
               ELSE [graph |-> restore_edges(
                                 add_node(removed, selected_node, node_data.type,
                                          node_data.level, node_data.metadata).graph,
                                 saved, selected_node, selected_node),
                     ok |-> FALSE]

\* "Delete Node" (app.py 236-241)
\* faulty variant: only the outgoing edges go with the node
delete_node_keeping_incoming(G, node_to_delete) ==
    [nodes |-> [m \in NodeSet(G) \ {node_to_delete} |-> G.nodes[m]],
     edges |-> [p \in Pairs |-> IF p[1] = node_to_delete THEN << >> ELSE G.edges[p]]]

delete_node(G, node_to_delete) == nx_remove_node(G, node_to_delete)

\* the removal step of "Delete Edge" (app.py 255-258) and of "Update Edge"
\* (app.py 219-221): graph.remove_edge(source, target)
\* faulty variant: every parallel edge of the pair is removed
remove_all_parallel(G, source, target) == [G EXCEPT !.edges[<<source, target>>] = << >>]

remove_selected_edge(G, source, target) == nx_remove_edge(G, source, target)

\* "Update Edge" (app.py 219-227)
update_edge(G, source, target, new_source, new_target, new_relationship) ==
    add_edge(remove_selected_edge(G, source, target), new_source, new_target, new_relationship)

----------------------------------------------------------------------------
(* Actions of the Graph Store and of the sidebar *)

NoCall == [op |-> "init", args |-> NoOut, ok |-> TRUE, out |-> NoOut]

Init ==
    /\ NoSavedFile
    /\ selection = NoSelection
    /\ graph = EmptyGraph
    /\ ret = NoCall

\* KnowledgeGraph.add_node, as "Add Node" calls it
AddNode ==
    /\ UNCHANGED <<holder, disk, selection>>
    /\ \E name \in StoreNames, p \in NodeProfiles, md \in MetadataInputs :
           LET r == add_node(graph, name, p.type, p.level, md)
           IN /\ graph' = r.graph
              /\ ret' = [op |-> "add_node", args |-> [name |-> name], ok |-> r.ok, out |-> NoOut]

\* KnowledgeGraph.add_edge with any two names
AddEdge ==
    /\ UNCHANGED <<holder, disk, selection>>
    /\ NumEdges(graph) < MaxEdges
    /\ \E source \in StoreNames, target \in StoreNames, relationship \in Relationships :
           LET r == add_edge(graph, source, target, relationship)
           IN /\ graph' = r.graph
              /\ ret' = [op |-> "add_edge",
                         args |-> [source |-> source, target |-> target,
                                   relationship |-> relationship],
                         ok |-> r.ok, out |-> NoOut]

UpdateNodeMetadata ==
    /\ UNCHANGED <<holder, disk, selection>>
    /\ \E node \in StoreNames, md \in MetadataInputs :
           LET r == update_node_metadata(graph, node, md)
           IN /\ graph' = r.graph
              /\ ret' = [op |-> "update_node_metadata",
                         args |-> [name |-> node, metadata |-> md],
                         ok |-> r.ok, out |-> NoOut]

GetConnectedNodes ==
    /\ UNCHANGED <<holder, disk, selection>>
    /\ \E node \in StoreNames, relationship \in {None} \cup {Some(r) : r \in Relationships} :
           /\ graph' = graph
           /\ ret' = [op |-> "get_connected_nodes",
                      args |-> [name |-> node, relationship |-> relationship],
                      ok |-> TRUE,
                      out |-> [connected |-> get_connected_nodes(graph, node, relationship)]]

\* "Update Node": the node is picked among the nodes of the graph
EditNode ==
    /\ UNCHANGED <<holder, disk, selection>>
    /\ \E selected_node \in NodeSet(graph), new_name \in StoreNames,
          p \in NodeProfiles, md \in MetadataInputs :
           LET r == update_node(graph, selected_node, new_name, p.type, p.level, md)
           IN /\ graph' = r.graph
              /\ ret' = [op |-> "edit_node",
                         args |-> [name |-> selected_node, new_name |-> new_name],
                         ok |-> r.ok, out |-> NoOut]

\* "Update Edge": the edge is picked in the list of edges; the new source is
\* a node, the new target a node other than the new source.  The target
\* selectbox is built with index = options.index(target): when the new source
\* is the old target (always, for a self loop) that raises before the button
\* is handled and nothing changes.
EditEdge ==
    /\ UNCHANGED <<holder, disk, selection>>
    /\ \E source \in NodeSet(graph), target \in NodeSet(graph),
          new_source \in NodeSet(graph), new_target \in NodeSet(graph),
          new_relationship \in Relationships :
           /\ graph.edges[<<source, target>>] # << >>
           /\ source # target
           /\ new_target # new_source
           /\ IF new_source = target
              THEN /\ graph' = graph
                   /\ ret' = [op |-> "edit_edge",
                              args |-> [source |-> source, target |-> target],
                              ok |-> FALSE, out |-> NoOut]
              ELSE LET r == update_edge(graph, source, target, new_source, new_target,
                                        new_relationship)
                   IN /\ graph' = r.graph
                      /\ ret' = [op |-> "edit_edge",
                                 args |-> [source |-> source, target |-> target],
                                 ok |-> r.ok,
                                 out |-> [before |-> graph.edges[<<source, target>>],
                                          after |-> remove_selected_edge(graph, source, target)
                                                      .edges[<<source, target>>]]]

\* "Delete Node"
DeleteNode ==
    /\ UNCHANGED <<holder, disk, selection>>
    /\ \E node_to_delete \in NodeSet(graph) :
           /\ graph' = delete_node(graph, node_to_delete)
           /\ ret' = [op |-> "delete_node", args |-> [name |-> node_to_delete], ok |-> TRUE,
                      out |-> [incident |-> {p \in Pairs :
                                               /\ node_to_delete \in {p[1], p[2]}
                                               /\ graph.edges[p] # << >>}]]

\* "Delete Edge": the edge is picked in the list of edges
DeleteEdge ==
    /\ UNCHANGED <<holder, disk, selection>>
    /\ \E source \in NodeSet(graph), target \in NodeSet(graph) :
           /\ graph.edges[<<source, target>>] # << >>
           /\ graph' = remove_selected_edge(graph, source, target)
           /\ ret' = [op |-> "delete_edge", args |-> [source |-> source, target |-> target],
                      ok |-> TRUE,
                      out |-> [before |-> graph.edges[<<source, target>>],
                               after |-> graph'.edges[<<source, target>>]]]

Next ==
    \/ AddNode
    \/ AddEdge
    \/ UpdateNodeMetadata
    \/ GetConnectedNodes
    \/ EditNode
    \/ EditEdge
    \/ DeleteNode
    \/ DeleteEdge

Spec == Init /\ [][Next]_vars

----------------------------------------------------------------------------
(* visualization.generate_graph_visualization *)

Levels == {0, 1}

\* colour and shape by node type (visualization.py 102-127)
node_style(node_type) ==
    CASE node_type = "main_topic" -> [color |-> "#ff7f7f", shape |-> "dot"]
      [] node_type = "sub_topic"  -> [color |-> "#7f7fff", shape |-> "dot"]
      [] node_type = "paper"      -> [color |-> "#7fff7f", shape |-> "diamond"]
      [] node_type = "concept"    -> [color |-> "#ff7fff", shape |-> "triangle"]
      [] node_type = "method"     -> [color |-> "#ffff7f", shape |-> "star"]
      [] node_type = "tool"       -> [color |-> "#7fffff", shape |-> "square"]
      [] node_type = "dataset"    -> [color |-> "#ffa07a", shape |-> "hexagon"]
      [] OTHER                    -> [color |-> "#d3d3d3", shape |-> "dot"]

\* colour by relationship (visualization.py 180-192)
edge_color(relationship) ==
    CASE relationship = "belongs_to" -> "#808080"
      [] relationship = "related_to" -> "#0000ff"
      [] relationship = "depends_on" -> "#ff0000"
      [] OTHER                       -> "#000000"

\* node_level in show_levels, for a show_levels list
level_shown(G, node, show_levels) == G.nodes[node].level \in show_levels[1]

\* first pass: the nodes of the shown levels (all nodes for None), then the
\* selected nodes whatever their level
seed_nodes(G, show_levels, selected_nodes) ==
    LET by_level == IF ~IsNone(show_levels)
                    THEN {node \in NodeSet(G) : level_shown(G, node, show_levels)}
                    ELSE NodeSet(G)
    IN IF Truthy(selected_nodes) THEN by_level \cup selected_nodes[1] ELSE by_level

\* second pass: predecessors and successors of the visible nodes, which are
\* all nodes of the graph here
connected_nodes(G, visible_nodes) ==
    UNION {nx_predecessors(G, node) \cup nx_successors(G, node) : node \in visible_nodes}

\* the connected nodes are added if their level is shown (all for None)
\* faulty variant: connected nodes are added whatever their level
expand_without_refilter(G, show_levels, visible_nodes, connected) ==
    visible_nodes \cup connected

expand_visible(G, show_levels, visible_nodes, connected) ==
    IF ~IsNone(show_levels)
    THEN visible_nodes \cup {node \in connected : level_shown(G, node, show_levels)}
    ELSE visible_nodes \cup connected

\* the nodes added to the network: the nodes of the graph that are visible,
\* each with its colour, shape and size
\* faulty variant: a selected node grows but keeps the colour of its type
render_nodes_type_colour(G, visible_nodes, selected_nodes) ==
    [node \in {n \in NodeSet(G) : n \in visible_nodes} |->
        LET style == node_style(G.nodes[node].type)
            selected == Truthy(selected_nodes) /\ node \in selected_nodes[1]
        IN [color |-> style.color,
            shape |-> style.shape,
            size  |-> IF selected THEN 30 ELSE 20]]

render_nodes(G, visible_nodes, selected_nodes) ==
    [node \in {n \in NodeSet(G) : n \in visible_nodes} |->
        LET style == node_style(G.nodes[node].type)
            selected == Truthy(selected_nodes) /\ node \in selected_nodes[1]
        IN [color |-> IF selected THEN "#ffd700" ELSE style.color,
            shape |-> style.shape,
            size  |-> IF selected THEN 30 ELSE 20]]

\* the edges added to the network, pair by pair in key order
\* faulty variant: one visible endpoint is enough
render_edges_one_endpoint(G, visible_nodes, selected_edges, show_edge_types) ==
    [p \in Pairs |->
        LET shown(e) == IsNone(show_edge_types) \/ e.relationship \in show_edge_types[1]
            kept == IF p[1] \in visible_nodes \/ p[2] \in visible_nodes
                    THEN SelectSeq(G.edges[p], shown) ELSE << >>
            highlighted == Truthy(selected_edges) /\ p \in selected_edges[1]
        IN [i \in 1..Len(kept) |->
              [label |-> kept[i].relationship,
               color |-> IF highlighted THEN "#FFA500" ELSE edge_color(kept[i].relationship),
               width |-> IF highlighted THEN 3 ELSE 1]]]

\* faulty variant: a selected pair highlights the edges of both directions
render_edges_either_direction(G, visible_nodes, selected_edges, show_edge_types) ==
    [p \in Pairs |->
        LET shown(e) == IsNone(show_edge_types) \/ e.relationship \in show_edge_types[1]
            kept == IF p[1] \in visible_nodes /\ p[2] \in visible_nodes
                    THEN SelectSeq(G.edges[p], shown) ELSE << >>
            highlighted == /\ Truthy(selected_edges)
                           /\ (p \in selected_edges[1] \/ <<p[2], p[1]>> \in selected_edges[1])
        IN [i \in 1..Len(kept) |->
              [label |-> kept[i].relationship,
               color |-> IF highlighted THEN "#FFA500" ELSE edge_color(kept[i].relationship),
               width |-> IF highlighted THEN 3 ELSE 1]]]

render_edges(G, visible_nodes, selected_edges, show_edge_types) ==
    [p \in Pairs |->
        LET shown(e) == IsNone(show_edge_types) \/ e.relationship \in show_edge_types[1]
            kept == IF p[1] \in visible_nodes /\ p[2] \in visible_nodes
                    THEN SelectSeq(G.edges[p], shown) ELSE << >>
            highlighted == Truthy(selected_edges) /\ p \in selected_edges[1]
        IN [i \in 1..Len(kept) |->
              [label |-> kept[i].relationship,
               color |-> IF highlighted THEN "#FFA500" ELSE edge_color(kept[i].relationship),
               width |-> IF highlighted THEN 3 ELSE 1]]]

\* what a call that raised leaves: False, and no scene
NoScene ==
    [ok |-> FALSE, visible |-> {}, nodes |-> [n \in {} |-> NoOut],
     edges |-> [p \in Pairs |-> << >>]]

\* The whole function.  It raises, and the except clause returns False,
\* when a visible node is not in the graph (graph.predecessors) and when a
\* rendered node has no type (node_type.value).
generate_graph_visualization(G, show_levels, selected_nodes, selected_edges, show_edge_types) ==
    LET seed == seed_nodes(G, show_levels, selected_nodes)
    IN IF \E node \in seed : node \notin NodeSet(G)
       THEN NoScene
       ELSE LET visible_nodes ==
                    expand_visible(G, show_levels, seed, connected_nodes(G, seed))
            IN IF \E node \in visible_nodes : G.nodes[node].type = "None"
               THEN NoScene
               ELSE [ok |-> TRUE,
                     visible |-> visible_nodes,
                     nodes |-> render_nodes(G, visible_nodes, selected_nodes),
                     edges |-> render_edges(G, visible_nodes, selected_edges,
                                            show_edge_types)]

----------------------------------------------------------------------------
(* The visualization as a function of its arguments: SpecViz draws a graph
   built by add_node and add_edge, and one call draws the arguments. *)

VizTriples(S) ==
    {<<source, target, relationship>> \in S \X S \X Relationships : source # target}

RECURSIVE add_nodes(_, _, _)
add_nodes(G, S, f) ==
    IF S = {} THEN G
    ELSE LET n == CHOOSE x \in S : TRUE
         IN add_nodes(add_node(G, n, f[n].type, f[n].level, NodeMetadata("", "")).graph,
                      S \ {n}, f)

RECURSIVE add_edges(_, _)
add_edges(G, es) ==
    IF es = << >> THEN G
    ELSE add_edges(add_edge(G, Head(es)[1], Head(es)[2], Head(es)[3]).graph, Tail(es))

ShowLevelsInputs == {None} \cup {Some(L) : L \in SUBSET Levels}
\* the graphs drawn are closed under renaming, so two selectable names give
\* every selection of up to two nodes, present or absent
SelectedNodesInputs == {None} \cup {Some(S) : S \in SUBSET {"A", "B"}}
ShowEdgeTypesInputs == {None} \cup {Some(T) : T \in SUBSET Relationships}

\* the argument tuples (show_levels, selected_nodes, selected_edges,
\* show_edge_types) of a call: every combination without selected edges, and
\* a selected pair with all levels shown
VizInputs ==
    (ShowLevelsInputs \X SelectedNodesInputs \X {None} \X ShowEdgeTypesInputs)
    \cup ({None} \X {None, Some({"A"})} \X {Some({<<"A", "B">>})} \X ShowEdgeTypesInputs)

InitViz ==
    /\ NoSavedFile
    /\ selection = NoSelection
    /\ \E S \in SUBSET Names :
         \E f \in [S -> NodeProfiles] :
            \E k \in 0..MaxVizEdges :
               \E es \in [1..k -> VizTriples(S)] :
                  graph = add_edges(add_nodes(EmptyGraph, S, f), es)
    /\ ret = NoCall

\* one call of generate_graph_visualization on the graph
Visualize ==
    /\ UNCHANGED <<holder, disk, selection>>
    /\ ret.op = "init"
    /\ \E in \in VizInputs :
           LET r == generate_graph_visualization(graph, in[1], in[2], in[3], in[4])
           IN ret' = [op |-> "generate_graph_visualization",
                      args |-> [show_levels |-> in[1],
                                selected_nodes |-> in[2],
                                selected_edges |-> in[3],
                                show_edge_types |-> in[4]],
                      ok |-> r.ok,
                      out |-> [visible |-> r.visible, nodes |-> r.nodes, edges |-> r.edges]]
    /\ UNCHANGED graph

NextViz == Visualize

SpecViz == InitViz /\ [][NextViz]_vars

----------------------------------------------------------------------------
(* Visibility claims, checked under SpecViz *)

IsViz == ret.op = "generate_graph_visualization"

\* the selected_nodes argument as a set
SelectedSet == IF IsNone(ret.args.selected_nodes) THEN {} ELSE ret.args.selected_nodes[1]

HiddenByLevel(n) ==
    /\ ~IsNone(ret.args.show_levels)
    /\ graph.nodes[n].level \notin ret.args.show_levels[1]

\* C1: for a show_levels list, a node whose level is not in show_levels and
\* which is not selected is never in the final visible node set nor among
\* the rendered nodes, also when it is a neighbour of a visible node.
C1_HiddenLevelStaysHidden ==
    IsViz =>
        \A n \in NodeSet(graph) :
            (HiddenByLevel(n) /\ n \notin SelectedSet)
                => (n \notin ret.out.visible /\ n \notin DOMAIN ret.out.nodes)

\* a completed call in which a hidden, unselected node is a predecessor of
\* one rendered node and a successor of another
C1_Witness ==
    /\ IsViz
    /\ ret.ok
    /\ \E n \in NodeSet(graph) :
         /\ HiddenByLevel(n)
         /\ n \notin SelectedSet
         /\ \E m \in DOMAIN ret.out.nodes : graph.edges[<<n, m>>] # << >>
         /\ \E m \in DOMAIN ret.out.nodes : graph.edges[<<m, n>>] # << >>

\* C2: every node of the graph that is in selected_nodes is in the final
\* visible node set and is rendered, whatever show_levels is.
C2_SelectedAlwaysRendered ==
    IsViz =>
        \A n \in NodeSet(graph) \cap SelectedSet :
            n \in ret.out.visible /\ n \in DOMAIN ret.out.nodes

\* how many of the edges of a sequence carry the relationship
CountRel(es, field, rel) == Cardinality({i \in 1..Len(es) : es[i][field] = rel})

\* C3: an edge (u, v, rel) is rendered if and only if u and v are both in
\* the final visible node set and rel is in show_edge_types (or
\* show_edge_types is None); parallel edges are decided one by one, so for
\* every pair and relationship the rendered edges are all or none of the
\* graph's.
C3_EdgeRenderedIff ==
    IsViz =>
        \A p \in Pairs : \A rel \in Relationships :
            CountRel(ret.out.edges[p], "label", rel) =
                IF /\ p[1] \in ret.out.visible
                   /\ p[2] \in ret.out.visible
                   /\ (IsNone(ret.args.show_edge_types) \/ rel \in ret.args.show_edge_types[1])
                THEN CountRel(graph.edges[p], "relationship", rel)
                ELSE 0

\* a completed call on a pair of visible nodes joined by two parallel edges
\* with different relationships, of which one is rendered and one is not
C3_Witness ==
    /\ IsViz
    /\ ret.ok
    /\ \E p \in Pairs :
         /\ Len(graph.edges[p]) = 2
         /\ graph.edges[p][1].relationship # graph.edges[p][2].relationship
         /\ Len(ret.out.edges[p]) = 1
         /\ p[1] \in ret.out.visible
         /\ p[2] \in ret.out.visible

\* the labels of the rendered edges, pair by pair
EdgeLabels(edges) == [p \in Pairs |-> [i \in 1..Len(edges[p]) |-> edges[p][i].label]]

\* C4: selected_nodes never affects visibility: the rendered nodes and the
\* rendered edges are the ones the same call renders without selected_nodes.
C4_SelectionNeverAffectsVisibility ==
    IsViz =>
        LET r == generate_graph_visualization(graph, ret.args.show_levels, None,
                                              ret.args.selected_edges,
                                              ret.args.show_edge_types)
        IN /\ DOMAIN ret.out.nodes = DOMAIN r.nodes
           /\ EdgeLabels(ret.out.edges) = EdgeLabels(r.edges)

----------------------------------------------------------------------------
(* Graph Store claims, checked under Spec *)

\* C5: add_node called with a name that already exists returns False and
\* leaves the whole graph unchanged: the node set, every node's type, level
\* and metadata, and all edges are the same as before the call.
C5_AddNodeDuplicateNoChange ==
    [][(ret'.op = "add_node" /\ ret'.args.name \in NodeSet(graph))
         => (~ret'.ok /\ graph' = graph)]_vars

\* an add_node that failed on a graph that has a second node and an edge
C5_Witness ==
    /\ ret.op = "add_node"
    /\ ~ret.ok
    /\ ret.args.name \in NodeSet(graph)
    /\ NumEdges(graph) > 0

\* C6: add_edge called with a source or a target that is not a node returns
\* False, creates no node and leaves the edges unchanged.
C6_AddEdgeMissingEndpoint ==
    [][(/\ ret'.op = "add_edge"
        /\ (ret'.args.source \notin NodeSet(graph) \/ ret'.args.target \notin NodeSet(graph)))
         => (/\ ~ret'.ok
             /\ NodeSet(graph') = NodeSet(graph)
             /\ graph'.nodes = graph.nodes
             /\ graph'.edges = graph.edges)]_vars

\* a failed add_edge with one endpoint present and the other absent, on a
\* graph that already holds an edge
C6_Witness ==
    /\ ret.op = "add_edge"
    /\ ~ret.ok
    /\ ret.args.source \in NodeSet(graph)
    /\ ret.args.target \notin NodeSet(graph)
    /\ NumEdges(graph) > 0

\* C7: add_edge called with two existing endpoints returns True and adds
\* exactly one new edge, with the given relationship and a key no existing
\* edge of that pair has, after the existing ones; nothing else changes.  It
\* does so also when an edge with the same relationship already exists.
C7_AddEdgeAddsOneParallel ==
    [][(/\ ret'.op = "add_edge"
        /\ ret'.args.source \in NodeSet(graph)
        /\ ret'.args.target \in NodeSet(graph))
         => LET p == <<ret'.args.source, ret'.args.target>>
                old == graph.edges[p]
                new == graph'.edges[p]
            IN /\ ret'.ok
               /\ Len(new) = Len(old) + 1
               /\ SubSeq(new, 1, Len(old)) = old
               /\ new[Len(new)].relationship = ret'.args.relationship
               /\ \A i \in 1..Len(old) : old[i].key # new[Len(new)].key
               /\ \A q \in Pairs \ {p} : graph'.edges[q] = graph.edges[q]
               /\ graph'.nodes = graph.nodes]_vars

\* a successful add_edge after which the pair holds two edges with the same
\* relationship
C7_Witness ==
    /\ ret.op = "add_edge"
    /\ ret.ok
    /\ LET es == graph.edges[<<ret.args.source, ret.args.target>>]
       IN /\ Len(es) >= 2
          /\ es[Len(es)].relationship = es[Len(es) - 1].relationship
          /\ es[Len(es)].key # es[Len(es) - 1].key

\* C8: after any sequence of operations every edge has its source and its
\* target in the node set, and right after a node is deleted no edge has it
\* as source or as target.
C8_NoDanglingEdge ==
    /\ \A p \in Pairs :
         graph.edges[p] # << >> => (p[1] \in NodeSet(graph) /\ p[2] \in NodeSet(graph))
    /\ ret.op = "delete_node" =>
         /\ ret.args.name \notin NodeSet(graph)
         /\ \A p \in Pairs : ret.args.name \in {p[1], p[2]} => graph.edges[p] = << >>

\* a node was deleted that had an edge going out to, and an edge coming in
\* from, another node
C8_Witness ==
    /\ ret.op = "delete_node"
    /\ \E p \in ret.out.incident : p[1] = ret.args.name /\ p[2] # ret.args.name
    /\ \E p \in ret.out.incident : p[2] = ret.args.name /\ p[1] # ret.args.name

UndirectedNeighbours(G, node, relationship) ==
    {m \in Names :
       \E p \in {<<node, m>>, <<m, node>>} :
          \E i \in 1..Len(G.edges[p]) :
             IsNone(relationship) \/ G.edges[p][i].relationship = relationship[1]}

\* C10: get_connected_nodes(name) returns every node joined to name by at
\* least one outgoing or incoming edge; with a relationship, exactly the
\* neighbours joined to name, in either direction, by an edge carrying it.
C10_ConnectedNodesUndirected ==
    (ret.op = "get_connected_nodes" /\ ret.args.name \in NodeSet(graph)) =>
        ret.out.connected = UndirectedNeighbours(graph, ret.args.name, ret.args.relationship)

----------------------------------------------------------------------------
(* Renaming a node, checked with a third name: SpecRename draws a graph of
   up to three nodes, built by add_node and add_edge, and one "Update Node"
   submission draws the selected node and the new name among all names. *)

\* total number of edges of a graph a node is renamed in
MaxRenameEdges == 2

RenameTriples(S) == S \X S \X Relationships

InitRename ==
    /\ NoSavedFile
    /\ selection = NoSelection
    /\ \E S \in SUBSET Names :
         \E k \in 0..MaxRenameEdges :
            \E es \in [1..k -> RenameTriples(S)] :
               graph = add_edges(
                         add_nodes(EmptyGraph, S,
                                   [n \in S |-> [type |-> "main_topic", level |-> 0]]),
                         es)
    /\ ret = NoCall

\* one "Update Node" submission
RenameNode ==
    /\ UNCHANGED <<holder, disk, selection>>
    /\ ret.op = "init"
    /\ \E selected_node \in NodeSet(graph), new_name \in Names,
          p \in NodeProfiles, md \in MetadataInputs :
           LET r == update_node(graph, selected_node, new_name, p.type, p.level, md)
           IN /\ graph' = r.graph
              /\ ret' = [op |-> "edit_node",
                         args |-> [name |-> selected_node, new_name |-> new_name],
                         ok |-> r.ok, out |-> NoOut]

NextRename == RenameNode

SpecRename == InitRename /\ [][NextRename]_vars

----------------------------------------------------------------------------
(* Rename claims *)

\* C11: an "Update Node" that renames node A to the name of another existing
\* node B reports failure and leaves the graph exactly as it was: the same
\* nodes with the same type, level and metadata, and the same edges, those
\* into A and those out of A included.
C11_RenameCollisionRollsBack ==
    [][(/\ ret'.op = "edit_node"
        /\ ret'.args.new_name # ret'.args.name
        /\ ret'.args.new_name \in NodeSet(graph))
         => (~ret'.ok /\ graph' = graph)]_vars

\* the name an endpoint carries after old was renamed to new
Renamed(n, old, new) == IF n = old THEN new ELSE n

\* C12: an "Update Node" that renames node A to a fresh name B succeeds and
\* re-creates every edge that was incident to A, incoming or outgoing, with
\* B in the place of A: for every pair and relationship the graph holds as
\* many edges afterwards between the renamed endpoints as it held before,
\* and none at A.
C12_RenameKeepsIncidentEdges ==
    [][(/\ ret'.op = "edit_node"
        /\ ret'.args.new_name # ret'.args.name
        /\ ret'.args.new_name \notin NodeSet(graph))
         => LET old == ret'.args.name
                new == ret'.args.new_name
            IN /\ ret'.ok
               /\ NodeSet(graph') = (NodeSet(graph) \ {old}) \cup {new}
               /\ \A p \in Pairs : \A rel \in Relationships :
                    /\ new \notin {p[1], p[2]} =>
                         CountRel(graph'.edges[<<Renamed(p[1], old, new),
                                                 Renamed(p[2], old, new)>>],
                                  "relationship", rel)
                           = CountRel(graph.edges[p], "relationship", rel)
                    /\ old \in {p[1], p[2]} => graph'.edges[p] = << >>]_vars

----------------------------------------------------------------------------
(* The styles of the rendered scene: SpecRender draws a graph on two names
   whose first node has any type, none included, joined by edges of the
   three named relationships and of a custom one, and one call draws the
   selected nodes and the selected edges. *)

\* total number of edges of a graph whose styles are rendered
MaxRenderEdges == 3

\* [t.value for t in NodeType]
NodeTypeValues ==
    {"main_topic", "sub_topic", "paper", "concept", "method", "tool", "dataset", "other"}

RenderRelationships == {"belongs_to", "related_to", "depends_on", "cites"}

\* the profiles of the first node: each NodeType, and no type (add_node
\* stores whatever node_type it is given)
RenderProfiles == {[type |-> t, level |-> 0] : t \in NodeTypeValues \cup {"None"}}

RenderNodeMaps ==
    UNION {{f \in [S -> RenderProfiles \cup NodeProfiles] :
              /\ "A" \in S => f["A"] \in RenderProfiles
              /\ "B" \in S => f["B"] \in NodeProfiles} : S \in SUBSET StoreNames}

RenderTriples(S) ==
    {<<source, target, relationship>> \in S \X S \X RenderRelationships : source # target}

\* (selected_nodes, selected_edges) of a call; all levels and all edge types
\* are shown
RenderInputs == {None, Some({"A"})} \X {None, Some({<<"A", "B">>})}

InitRender ==
    /\ NoSavedFile
    /\ selection = NoSelection
    /\ \E f \in RenderNodeMaps :
         \E k \in 0..MaxRenderEdges :
            \E es \in [1..k -> RenderTriples(DOMAIN f)] :
               graph = add_edges(add_nodes(EmptyGraph, DOMAIN f, f), es)
    /\ ret = NoCall

\* one call of generate_graph_visualization on the graph
Render ==
    /\ UNCHANGED <<holder, disk, selection>>
    /\ ret.op = "init"
    /\ \E in \in RenderInputs :
           LET r == generate_graph_visualization(graph, None, in[1], in[2], None)
           IN ret' = [op |-> "generate_graph_visualization",
                      args |-> [show_levels |-> None,
                                selected_nodes |-> in[1],
                                selected_edges |-> in[2],
                                show_edge_types |-> None],
                      ok |-> r.ok,
                      out |-> [visible |-> r.visible, nodes |-> r.nodes, edges |-> r.edges]]
    /\ UNCHANGED graph

NextRender == Render

SpecRender == InitRender /\ [][NextRender]_vars

----------------------------------------------------------------------------
(* Render Mapper claims, checked under SpecRender *)

\* C13: each visible node is drawn, with size 30 and colour #ffd700 when it
\* is in selected_nodes and otherwise with size 20 and the colour of its
\* type; the highlight colour takes precedence for every node type, and the
\* shape is always the shape of the type.
C13_NodeStyleAndHighlight ==
    (IsViz /\ ret.ok) =>
        /\ DOMAIN ret.out.nodes = ret.out.visible
        /\ \A n \in DOMAIN ret.out.nodes :
             LET drawn == ret.out.nodes[n]
                 style == node_style(graph.nodes[n].type)
             IN /\ drawn.shape = style.shape
                /\ IF n \in SelectedSet
                   THEN drawn.size = 30 /\ drawn.color = "#ffd700"
                   ELSE drawn.size = 20 /\ drawn.color = style.color

\* a completed call that drew a selected node whose type has its own colour
\* and shape next to an unselected node
C13_Witness ==
    /\ IsViz
    /\ ret.ok
    /\ \E n \in DOMAIN ret.out.nodes, m \in DOMAIN ret.out.nodes :
         /\ n \in SelectedSet
         /\ graph.nodes[n].type = "dataset"
         /\ ret.out.nodes[n] = [color |-> "#ffd700", shape |-> "hexagon", size |-> 30]
         /\ m \notin SelectedSet
         /\ ret.out.nodes[m].size = 20

\* the node types with an entry of their own in the style table
MappedTypes ==
    {"main_topic", "sub_topic", "paper", "concept", "method", "tool", "dataset"}

\* C14: the node style lookup is total: when every selected node is in the
\* graph, the call completes and returns True, and a visible node whose type
\* is absent (None) or has no entry of its own is rendered with the default
\* colour and shape.
C14_StyleLookupTotal ==
    (IsViz /\ SelectedSet \subseteq NodeSet(graph)) =>
        /\ ret.ok
        /\ \A n \in NodeSet(graph) :
             graph.nodes[n].type \notin MappedTypes =>
                /\ n \in DOMAIN ret.out.nodes
                /\ ret.out.nodes[n].shape = "dot"
                /\ n \notin SelectedSet => ret.out.nodes[n].color = "#d3d3d3"

\* the selected_edges argument as a set
SelectedEdgeSet == IF IsNone(ret.args.selected_edges) THEN {} ELSE ret.args.selected_edges[1]

\* the colours of the relationships
RelationshipColour(label) ==
    IF label = "belongs_to" THEN "#808080"
    ELSE IF label = "related_to" THEN "#0000ff"
    ELSE IF label = "depends_on" THEN "#ff0000"
    ELSE "#000000"

\* C15: a rendered edge is highlighted (colour #FFA500, width 3) exactly
\* when its (source, target) pair is in selected_edges, so all parallel
\* edges of a selected pair are highlighted together and the edges of the
\* reverse pair are not; an edge that is not highlighted has width 1 and the
\* colour of its relationship; selected_nodes makes no difference.
C15_EdgeHighlightByPair ==
    (IsViz /\ ret.ok) =>
        /\ \A p \in Pairs : \A i \in 1..Len(ret.out.edges[p]) :
             LET drawn == ret.out.edges[p][i]
             IN IF p \in SelectedEdgeSet
                THEN drawn.color = "#FFA500" /\ drawn.width = 3
                ELSE drawn.color = RelationshipColour(drawn.label) /\ drawn.width = 1
        /\ ret.out.edges =
             generate_graph_visualization(graph, ret.args.show_levels, None,
                                          ret.args.selected_edges,
                                          ret.args.show_edge_types).edges

\* a completed call, with a node selected, that drew two highlighted
\* parallel edges of the selected pair and an edge of the reverse pair with
\* the colour of its relationship
C15_Witness ==
    /\ IsViz
    /\ ret.ok
    /\ SelectedSet # {}
    /\ \E p \in SelectedEdgeSet :
         /\ Len(ret.out.edges[p]) = 2
         /\ ret.out.edges[p][1].label # ret.out.edges[p][2].label
         /\ \A i \in 1..2 : ret.out.edges[p][i].width = 3
         /\ Len(ret.out.edges[<<p[2], p[1]>>]) = 1
         /\ ret.out.edges[<<p[2], p[1]>>][1] =
              [label |-> "belongs_to", color |-> "#808080", width |-> 1]

----------------------------------------------------------------------------
(* persistence.GraphPersistence: the JSON interchange format.

   A JSON text is modelled by what json.loads makes of it: kind is
   "invalid" for a text that does not parse, "array" for a value that is not
   an object, "object" for an object, which may have a 'nodes' list and an
   'edges' list.  A field of a node or edge entry is Optional: None when the
   key is missing or null. *)

\* number of entries of the 'nodes' list of a document
MaxDocNodes == 2
\* number of entries of the 'edges' list of a document
MaxDocEdges == 2

\* truthiness of an optional string: None and "" are falsy
StrTruthy(o) == o # <<>> /\ o[1] # ""

\* str.lower() on the type strings of the documents
Lower(str) ==
    CASE str = "PAPER"      -> "paper"
      [] str = "Paper"      -> "paper"
      [] str = "Main_Topic" -> "main_topic"
      [] str = "Bogus"      -> "bogus"
      [] OTHER              -> str

JsonNode(id, type, level, url, description) ==
    [id |-> id, type |-> type, level |-> level, url |-> url, description |-> description]

JsonEdge(source, target, relationship) ==
    [source |-> source, target |-> target, relationship |-> relationship]

\* the node entries the documents are made of
DocNodes ==
    {JsonNode(Some("A"), Some("Main_Topic"), Some(0), "", ""),
     JsonNode(Some("A"), Some("PAPER"), Some(1), "", ""),
     JsonNode(Some("B"), Some("paper"), Some(1), "u", "d"),
     JsonNode(Some("B"), Some("Bogus"), Some(0), "", ""),
     JsonNode(Some("B"), None, Some(0), "", ""),
     JsonNode(Some("A"), Some(""), None, "", ""),
     JsonNode(None, Some("paper"), Some(0), "", "")}

\* the edge entries the documents are made of
DocEdges ==
    {JsonEdge(Some("A"), Some("B"), Some("related_to")),
     JsonEdge(Some("A"), Some("B"), Some("depends_on")),
     JsonEdge(Some("B"), Some("A"), Some("related_to")),
     JsonEdge(Some("A"), Some("C"), Some("related_to")),
     JsonEdge(None, Some("B"), Some("related_to")),
     JsonEdge(Some("A"), Some("B"), None)}

SeqsUpTo(S, n) == UNION {[1..k -> S] : k \in 0..n}

JsonObject(has_nodes, nodes, has_edges, edges) ==
    [kind |-> "object", has_nodes |-> has_nodes, nodes |-> nodes,
     has_edges |-> has_edges, edges |-> edges]

\* a text that json.loads rejects (the empty string is one), and a JSON value
\* that is not an object
InvalidText == [JsonObject(FALSE, << >>, FALSE, << >>) EXCEPT !.kind = "invalid"]
ArrayText   == [JsonObject(FALSE, << >>, FALSE, << >>) EXCEPT !.kind = "array"]

JsonDocs ==
    {JsonObject(TRUE, ns, TRUE, es) :
         ns \in SeqsUpTo(DocNodes, MaxDocNodes), es \in SeqsUpTo(DocEdges, MaxDocEdges)}
    \cup {JsonObject(TRUE, ns, FALSE, << >>) : ns \in SeqsUpTo(DocNodes, MaxDocNodes)}
    \cup {JsonObject(FALSE, << >>, TRUE, es) : es \in SeqsUpTo(DocEdges, MaxDocEdges)}
    \cup {InvalidText, ArrayText}

\* one turn of the node loop (persistence.py 99-133)
\* faulty variant: a type that is not a NodeType value becomes 'other'
import_node_coercing(G, node_data) ==
    IF IsNone(node_data.id) THEN G
    ELSE LET lowered == IF StrTruthy(node_data.type) THEN Lower(node_data.type[1]) ELSE ""
             node_type_str == IF lowered \in NodeTypeValues THEN lowered ELSE "other"
         IN nx_add_node(G, node_data.id[1],
                        [type |-> node_type_str,
                         level |-> IF IsNone(node_data.level) THEN 0 ELSE node_data.level[1],
                         metadata |-> NodeMetadata(node_data.url, node_data.description)])

import_node(G, node_data) ==
    IF IsNone(node_data.id) THEN G
    ELSE LET lowered == IF StrTruthy(node_data.type) THEN Lower(node_data.type[1]) ELSE ""
             node_type_str == IF lowered = "" THEN "other" ELSE lowered
         IN IF node_type_str \notin NodeTypeValues THEN G
            ELSE nx_add_node(G, node_data.id[1],
                             [type |-> node_type_str,
                              level |-> IF IsNone(node_data.level) THEN 0
                                        ELSE node_data.level[1],
                              metadata |-> NodeMetadata(node_data.url, node_data.description)])

RECURSIVE import_nodes(_, _)
import_nodes(G, nodes) ==
    IF nodes = << >> THEN G ELSE import_nodes(import_node(G, Head(nodes)), Tail(nodes))

\* one turn of the edge loop (persistence.py 137-156)
\* faulty variant: no membership test, networkx creates the missing endpoint
import_edge_unguarded(G, edge_data) ==
    IF ~StrTruthy(edge_data.source) \/ ~StrTruthy(edge_data.target) THEN G
    ELSE nx_add_edge(G, edge_data.source[1], edge_data.target[1],
                     IF IsNone(edge_data.relationship) THEN "related_to"
                     ELSE edge_data.relationship[1])

import_edge(G, edge_data) ==
    IF ~StrTruthy(edge_data.source) \/ ~StrTruthy(edge_data.target) THEN G
    ELSE IF edge_data.source[1] \notin NodeSet(G) \/ edge_data.target[1] \notin NodeSet(G)
         THEN G
         ELSE nx_add_edge(G, edge_data.source[1], edge_data.target[1],
                          IF IsNone(edge_data.relationship) THEN "related_to"
                          ELSE edge_data.relationship[1])

RECURSIVE import_edges(_, _)
import_edges(G, edges) ==
    IF edges = << >> THEN G ELSE import_edges(import_edge(G, Head(edges)), Tail(edges))

\* import_from_json: Optional graph
import_from_json(json_str) ==
    IF json_str.kind # "object" \/ ~json_str.has_nodes THEN None
    ELSE LET with_nodes == import_nodes(EmptyGraph, json_str.nodes)
             with_edges == IF NodeSet(with_nodes) # {} /\ json_str.has_edges
                           THEN import_edges(with_nodes, json_str.edges)
                           ELSE with_nodes
         IN IF NodeSet(with_edges) = {} THEN None ELSE Some(with_edges)

\* the nodes of a set in a fixed order (the iteration order of graph.nodes)
RECURSIVE node_list(_)
node_list(S) ==
    IF S = {} THEN << >>
    ELSE LET n == CHOOSE x \in S : TRUE IN <<n>> \o node_list(S \ {n})

\* graph.edges(data=True, keys=True): source by source
RECURSIVE all_edges(_, _)
all_edges(G, nodes) ==
    IF nodes = << >> THEN << >>
    ELSE old_edges(G, Head(nodes)) \o all_edges(G, Tail(nodes))

\* export_to_json of an Optional graph: graph.nodes raises on None and the
\* except clause returns the empty string
\* faulty variant: one edge entry per pair and relationship
export_to_json_dedup(graph_opt) ==
    IF IsNone(graph_opt) THEN InvalidText
    ELSE LET G == graph_opt[1]
             ns == node_list(NodeSet(G))
             es == all_edges(G, ns)
             first(i) == \A j \in 1..(i - 1) : es[j] # es[i]
             kept == {i \in 1..Len(es) : first(i)}
             RECURSIVE pick(_)
             pick(i) == IF i > Len(es) THEN << >>
                        ELSE (IF i \in kept THEN <<es[i]>> ELSE << >>) \o pick(i + 1)
             ks == pick(1)
         IN JsonObject(TRUE,
               [i \in 1..Len(ns) |->
                  JsonNode(Some(ns[i]),
                           IF G.nodes[ns[i]].type = "None" THEN None
                           ELSE Some(G.nodes[ns[i]].type),
                           Some(G.nodes[ns[i]].level),
                           G.nodes[ns[i]].metadata.url,
                           G.nodes[ns[i]].metadata.description)],
               TRUE,
               [i \in 1..Len(ks) |-> JsonEdge(Some(ks[i][1]), Some(ks[i][2]), Some(ks[i][3]))])

export_to_json(graph_opt) ==
    IF IsNone(graph_opt) THEN InvalidText
    ELSE LET G == graph_opt[1]
             ns == node_list(NodeSet(G))
             es == all_edges(G, ns)
         IN JsonObject(TRUE,
               [i \in 1..Len(ns) |->
                  JsonNode(Some(ns[i]),
                           IF G.nodes[ns[i]].type = "None" THEN None
                           ELSE Some(G.nodes[ns[i]].type),
                           Some(G.nodes[ns[i]].level),
                           G.nodes[ns[i]].metadata.url,
                           G.nodes[ns[i]].metadata.description)],
               TRUE,
               [i \in 1..Len(es) |-> JsonEdge(Some(es[i][1]), Some(es[i][2]), Some(es[i][3]))])

\* "Import from JSON" (app.py 441-454): the session's graph is replaced when
\* import_from_json returned a graph (a graph with nodes is truthy)
\* faulty variant: the session's graph is cleared before the document is read
import_clearing_first(G, json_input) ==
    LET new_graph == import_from_json(json_input)
    IN IF ~IsNone(new_graph) /\ NodeSet(new_graph[1]) # {}
       THEN [graph |-> new_graph[1], ok |-> TRUE]
       ELSE [graph |-> EmptyGraph, ok |-> FALSE]

import_into_session(G, json_input) ==
    LET new_graph == import_from_json(json_input)
    IN IF ~IsNone(new_graph) /\ NodeSet(new_graph[1]) # {}
       THEN [graph |-> new_graph[1], ok |-> TRUE]
       ELSE [graph |-> G, ok |-> FALSE]

----------------------------------------------------------------------------
(* SpecImport: the session holds an empty graph or a graph with an edge;
   one document is imported, and the graph is exported. *)

InitImport ==
    /\ NoSavedFile
    /\ selection = NoSelection
    /\ graph \in {EmptyGraph,
                  add_edges(add_nodes(EmptyGraph, StoreNames,
                                      [n \in StoreNames |-> [type |-> "main_topic", level |-> 0]]),
                            << <<"B", "A", "depends_on">> >>)}
    /\ ret = NoCall

\* "Import from JSON" with a pasted text
ImportFromJSON ==
    /\ UNCHANGED <<holder, disk, selection>>
    /\ ret.op = "init"
    /\ \E json_input \in JsonDocs :
           LET r == import_into_session(graph, json_input)
           IN /\ graph' = r.graph
              /\ ret' = [op |-> "import_from_json", args |-> [doc |-> json_input],
                         ok |-> r.ok, out |-> NoOut]

\* "Export to JSON" (app.py 394-406)
ExportToJSON ==
    /\ UNCHANGED <<holder, disk, selection>>
    /\ ret.op # "export_to_json"
    /\ ret' = [op |-> "export_to_json", args |-> NoOut, ok |-> TRUE,
               out |-> [doc |-> export_to_json(Some(graph))]]
    /\ UNCHANGED graph

NextImport ==
    \/ ImportFromJSON
    \/ ExportToJSON

SpecImport == InitImport /\ [][NextImport]_vars

----------------------------------------------------------------------------
(* JSON interchange claims, checked under SpecImport *)

IsImport == ret.op = "import_from_json"

\* the type of the entry is, whatever its case, one of the NodeType values
TypeMatches(node_data) ==
    StrTruthy(node_data.type) /\ Lower(node_data.type[1]) \in NodeTypeValues

\* the entry has no type: the key is missing, null or the empty string
Untyped(node_data) == ~StrTruthy(node_data.type)

\* the last of the entries es of a 'nodes' list that carries the id
LastEntry(nodes, es, id) ==
    CHOOSE i \in es : nodes[i].id = Some(id) /\ \A j \in es : nodes[j].id = Some(id) => j <= i

\* C16 as stated: import_from_json accepts a node only if its type matches,
\* case-insensitively, one of the eight NodeType values: the nodes of the
\* imported graph are the ids of the entries whose type matches, each with
\* the canonical type, and every other entry is absent, never coerced.
C16_OnlyMatchingTypesAccepted ==
    (IsImport /\ ret.ok) =>
        LET nodes == ret.args.doc.nodes
            accepted == {i \in 1..Len(nodes) : ~IsNone(nodes[i].id) /\ TypeMatches(nodes[i])}
        IN /\ NodeSet(graph) = {nodes[i].id[1] : i \in accepted}
           /\ \A n \in NodeSet(graph) :
                graph.nodes[n].type = Lower(nodes[LastEntry(nodes, accepted, n)].type[1])

\* C16 amended: an entry is accepted if its type matches, case-insensitively,
\* one of the eight NodeType values, or if it has no type (missing, null or
\* empty), in which case the node is imported with type 'other'; an entry
\* with any other type is rejected, never coerced, and the remaining entries
\* are still imported.
C16_MatchingOrUntypedAccepted ==
    (IsImport /\ ret.ok) =>
        LET nodes == ret.args.doc.nodes
            accepted == {i \in 1..Len(nodes) :
                           ~IsNone(nodes[i].id) /\ (TypeMatches(nodes[i]) \/ Untyped(nodes[i]))}
        IN /\ NodeSet(graph) = {nodes[i].id[1] : i \in accepted}
           /\ \A n \in NodeSet(graph) :
                LET entry == nodes[LastEntry(nodes, accepted, n)]
                IN graph.nodes[n].type =
                     IF Untyped(entry) THEN "other" ELSE Lower(entry.type[1])

\* an import that rejected an entry of unknown type and accepted an entry
\* whose type is written in capitals
C16_Witness ==
    /\ IsImport
    /\ ret.ok
    /\ \E i, j \in 1..Len(ret.args.doc.nodes) :
         LET rejected == ret.args.doc.nodes[i]
             kept == ret.args.doc.nodes[j]
         IN /\ rejected.type = Some("Bogus")
            /\ rejected.id[1] \notin NodeSet(graph)
            /\ kept.type = Some("PAPER")
            /\ graph.nodes[kept.id[1]].type = "paper"

\* the relationship an edge entry is imported with
EntryRelationship(edge_data) ==
    IF IsNone(edge_data.relationship) THEN "related_to" ELSE edge_data.relationship[1]

\* C17: an edge entry whose source or target is not among the accepted nodes
\* is rejected on its own and creates no node; every other edge entry is
\* imported with its relationship: for every pair and relationship the
\* imported graph holds as many edges as the document has entries between
\* two accepted nodes, and no edge has an endpoint outside the node set.
C17_EdgesBetweenAcceptedNodes ==
    (IsImport /\ ret.ok) =>
        LET doc == ret.args.doc
        IN /\ NodeSet(graph) \subseteq
                {doc.nodes[i].id[1] : i \in {j \in 1..Len(doc.nodes) : ~IsNone(doc.nodes[j].id)}}
           /\ \A p \in Pairs :
                /\ graph.edges[p] # << >> => (p[1] \in NodeSet(graph) /\ p[2] \in NodeSet(graph))
                /\ \A i \in 1..Len(graph.edges[p]) :
                     graph.edges[p][i].relationship \in Relationships
                /\ \A rel \in Relationships :
                     CountRel(graph.edges[p], "relationship", rel) =
                       Cardinality({i \in 1..Len(doc.edges) :
                                      /\ doc.edges[i].source = Some(p[1])
                                      /\ doc.edges[i].target = Some(p[2])
                                      /\ p[1] \in NodeSet(graph)
                                      /\ p[2] \in NodeSet(graph)
                                      /\ EntryRelationship(doc.edges[i]) = rel})

\* an import that rejected an edge entry whose target is no accepted node and
\* imported another edge entry
C17_Witness ==
    /\ IsImport
    /\ ret.ok
    /\ NumEdges(graph) = 1
    /\ \E i \in 1..Len(ret.args.doc.edges) :
         /\ ~IsNone(ret.args.doc.edges[i].target)
         /\ ~IsNone(ret.args.doc.edges[i].source)
         /\ ret.args.doc.edges[i].source[1] \in NodeSet(graph)
         /\ ret.args.doc.edges[i].target[1] \notin NodeSet(graph)

\* the ids of the entries of a document that import_from_json accepts
AcceptedIds(doc) ==
    IF doc.kind # "object" \/ ~doc.has_nodes THEN {}
    ELSE {doc.nodes[i].id[1] :
            i \in {j \in 1..Len(doc.nodes) :
                     /\ ~IsNone(doc.nodes[j].id)
                     /\ (TypeMatches(doc.nodes[j]) \/ Untyped(doc.nodes[j]))}}

\* C18: the import succeeds if and only if at least one node was accepted;
\* when none was (no valid node, a text that is not JSON, no 'nodes' entry)
\* the session's graph is left exactly as it was, and when it succeeds the
\* session's graph is the imported graph: the accepted nodes and only edges
\* of the document.
C18_ImportAllOrNothing ==
    [][ret'.op = "import_from_json" =>
         LET doc == ret'.args.doc
         IN /\ ret'.ok <=> AcceptedIds(doc) # {}
            /\ ~ret'.ok => graph' = graph
            /\ ret'.ok => /\ NodeSet(graph') = AcceptedIds(doc)
                          /\ NumEdges(graph') <= Len(doc.edges)]_vars

\* a failed import of a document with node entries, none accepted, into a
\* session whose graph has nodes and an edge
C18_Witness ==
    /\ IsImport
    /\ ~ret.ok
    /\ ret.args.doc.kind = "object"
    /\ Len(ret.args.doc.nodes) = MaxDocNodes
    /\ NumEdges(graph) = 1
    /\ NodeSet(graph) = StoreNames

\* a document that follows the schema: every node entry has an id of its
\* own, a type that matches a NodeType value and a level; every edge entry
\* has a source and a target among the ids, and a relationship
WellFormed(doc) ==
    /\ doc.kind = "object"
    /\ doc.has_nodes
    /\ doc.has_edges
    /\ \A i \in 1..Len(doc.nodes) :
         /\ ~IsNone(doc.nodes[i].id)
         /\ TypeMatches(doc.nodes[i])
         /\ ~IsNone(doc.nodes[i].level)
         /\ \A j \in 1..Len(doc.nodes) : doc.nodes[j].id = doc.nodes[i].id => j = i
    /\ \A i \in 1..Len(doc.edges) :
         /\ \E j \in 1..Len(doc.nodes) : doc.nodes[j].id = doc.edges[i].source
         /\ \E j \in 1..Len(doc.nodes) : doc.nodes[j].id = doc.edges[i].target
         /\ ~IsNone(doc.edges[i].relationship)

\* two documents describe the same graph: the same ids with the same types
\* (canonical values) and levels, and the same multiset of (source, target,
\* relationship) edge entries
SameGraph(d, e) ==
    /\ d.kind = "object" /\ e.kind = "object"
    /\ d.has_nodes /\ e.has_nodes
    /\ Len(d.nodes) = Len(e.nodes)
    /\ {<<d.nodes[i].id, Lower(d.nodes[i].type[1]), d.nodes[i].level>> : i \in 1..Len(d.nodes)}
         = {<<e.nodes[i].id, Lower(e.nodes[i].type[1]), e.nodes[i].level>> : i \in 1..Len(e.nodes)}
    /\ Len(d.edges) = Len(e.edges)
    /\ \A x \in {d.edges[i] : i \in 1..Len(d.edges)} \cup {e.edges[i] : i \in 1..Len(e.edges)} :
         Cardinality({i \in 1..Len(d.edges) : d.edges[i] = x})
           = Cardinality({i \in 1..Len(e.edges) : e.edges[i] = x})

\* C19 as stated: for every well-formed document S,
\* export_to_json(import_from_json(S)) describes the same graph as S.
C19_RoundTripEveryWellFormed ==
    (IsImport /\ WellFormed(ret.args.doc)) =>
        SameGraph(export_to_json(import_from_json(ret.args.doc)), ret.args.doc)

\* C19 amended: for every well-formed document S with at least one node,
\* export_to_json(import_from_json(S)) describes the same graph as S: the
\* same node ids with the same types and levels, and the same multiset of
\* (source, target, relationship) edges, parallel edges included.
C19_RoundTripWithNodes ==
    (IsImport /\ WellFormed(ret.args.doc) /\ Len(ret.args.doc.nodes) >= 1) =>
        SameGraph(export_to_json(import_from_json(ret.args.doc)), ret.args.doc)

\* a well-formed document with two nodes, one typed in capitals, and two
\* parallel edges with the same relationship was imported
C19_Witness ==
    /\ IsImport
    /\ ret.ok
    /\ WellFormed(ret.args.doc)
    /\ Len(ret.args.doc.nodes) = 2
    /\ \E i \in 1..2 : ret.args.doc.nodes[i].type = Some("PAPER")
    /\ Len(ret.args.doc.edges) = 2
    /\ ret.args.doc.edges[1] = ret.args.doc.edges[2]
    /\ \E p \in Pairs : Len(graph.edges[p]) = 2

----------------------------------------------------------------------------
(* persistence.GraphPersistence: the pickle file, and the start of every
   script run.  Streamlit runs app.py again at each interaction; SpecDisk
   is the app with the file: each action is one run, the load of app.py
   42-44 first and then the handler of the interaction. *)

\* save_graph: pickle.dump(graph) into knowledge_graph.pkl
save_graph(G) == [exists |-> TRUE, readable |-> TRUE, graph |-> G]

\* load_graph: Optional graph, None when open or pickle.load raises
load_graph(D) == IF D.exists /\ D.readable THEN Some(D.graph) ELSE None

\* app.py 42-44: if os.path.exists('knowledge_graph.pkl'):
\*                   st.session_state.graph = persistence.load_graph()
startup(h, G, D) ==
    IF D.exists
    THEN LET loaded == load_graph(D)
         IN IF IsNone(loaded)
            THEN [holder |-> "None", graph |-> EmptyGraph, loaded |-> FALSE]
            ELSE [holder |-> "MultiDiGraph", graph |-> loaded[1], loaded |-> TRUE]
    ELSE [holder |-> h, graph |-> G, loaded |-> FALSE]

\* a run in which "Add Node" is submitted: the call raises when
\* st.session_state.graph is not a KnowledgeGraph
RunAddNode ==
    /\ \E name \in StoreNames, p \in NodeProfiles, md \in MetadataInputs :
           LET s == startup(holder, graph, disk)
               r == add_node(s.graph, name, p.type, p.level, md)
           IN /\ holder' = s.holder
              /\ IF s.holder = "KnowledgeGraph"
                 THEN /\ graph' = r.graph
                      /\ ret' = [op |-> "add_node", args |-> [name |-> name],
                                 ok |-> r.ok, out |-> NoOut]
                 ELSE /\ graph' = s.graph
                      /\ ret' = [op |-> "add_node", args |-> [name |-> name],
                                 ok |-> FALSE, out |-> NoOut]
    /\ UNCHANGED <<disk, selection>>

\* a run in which "Save to Disk" is pressed; the write succeeds or open
\* fails and the file is left as it was
RunSaveToDisk ==
    /\ UNCHANGED selection
    /\ \E written \in BOOLEAN :
           LET s == startup(holder, graph, disk)
           IN /\ holder' = s.holder
              /\ graph' = s.graph
              /\ IF s.holder = "KnowledgeGraph" /\ written
                 THEN disk' = save_graph(s.graph)
                 ELSE disk' = disk
              /\ ret' = [op |-> "save_graph", args |-> NoOut,
                         ok |-> (s.holder = "KnowledgeGraph" /\ written), out |-> NoOut]

\* the environment: the saved file can no longer be read or unpickled
FileDamaged ==
    /\ disk.exists
    /\ disk.readable
    /\ disk' = [disk EXCEPT !.readable = FALSE]
    /\ UNCHANGED <<graph, ret, holder, selection>>

\* a run with a saved file and no handler that touches the graph: the load
\* alone
RunLoad ==
    /\ disk.exists
    /\ LET s == startup(holder, graph, disk)
       IN /\ holder' = s.holder
          /\ graph' = s.graph
          /\ ret' = [op |-> "load_graph", args |-> NoOut, ok |-> s.loaded, out |-> NoOut]
    /\ UNCHANGED <<disk, selection>>

NextDisk ==
    \/ RunAddNode
    \/ RunSaveToDisk
    \/ FileDamaged
    \/ RunLoad

SpecDisk == Init /\ [][NextDisk]_vars

----------------------------------------------------------------------------
(* Persistence claims, checked under SpecDisk *)

\* C20: a failed load is recoverable: after a run in which load_graph
\* returned None, the session's Graph Store is still the in-memory graph it
\* held before the load was attempted.
C20_FailedLoadKeepsGraph ==
    [][(ret'.op = "load_graph" /\ ~ret'.ok)
         => (holder' = holder /\ graph' = graph)]_vars

\* C21: "Save to Disk" followed by the load at the start of the next run is
\* a full-fidelity round trip: after the load the session's Graph Store has
\* the nodes, node attributes and edges that were saved, and it is still a
\* KnowledgeGraph, which supports add_node, add_edge and the listing of
\* nodes and edges.
C21_SaveLoadRoundTrip ==
    (ret.op = "load_graph" /\ ret.ok) =>
        /\ graph = disk.graph
        /\ holder = "KnowledgeGraph"

\* C22: nodes and edges are destroyed only by explicit remove operations:
\* across a run that is not a delete, an edit or an import, every node of
\* the session's graph stays, with every edge, in the session's graph.
C22_OnlyRemovalsDestroy ==
    [][ret'.op \notin {"delete_node", "delete_edge", "edit_node", "edit_edge",
                       "import_from_json"}
         => (/\ NodeSet(graph) \subseteq NodeSet(graph')
             /\ \A p \in Pairs :
                  /\ Len(graph'.edges[p]) >= Len(graph.edges[p])
                  /\ SubSeq(graph'.edges[p], 1, Len(graph.edges[p])) = graph.edges[p]
             /\ (holder # "None" => holder' # "None"))]_vars

----------------------------------------------------------------------------
(* Further Graph Store claims *)

\* C23: update_node_metadata returns False and changes nothing when the
\* node is absent; when the node exists it returns True and the node's
\* metadata is the given value, whole, while the node's type and level,
\* all other nodes and all edges are unchanged.
C23_UpdateMetadataWholesale ==
    [][ret'.op = "update_node_metadata" =>
         LET node == ret'.args.name
         IN IF node \notin NodeSet(graph)
            THEN ~ret'.ok /\ graph' = graph
            ELSE /\ ret'.ok
                 /\ NodeSet(graph') = NodeSet(graph)
                 /\ graph'.nodes[node].metadata = ret'.args.metadata
                 /\ graph'.nodes[node].type = graph.nodes[node].type
                 /\ graph'.nodes[node].level = graph.nodes[node].level
                 /\ \A m \in NodeSet(graph) \ {node} : graph'.nodes[m] = graph.nodes[m]
                 /\ graph'.edges = graph.edges]_vars

\* a node's metadata was replaced by the empty metadata in a graph that has
\* another node, with a URL and a description, and an edge
C23_Witness ==
    /\ ret.op = "update_node_metadata"
    /\ ret.ok
    /\ ret.args.metadata = NodeMetadata("", "")
    /\ graph.nodes[ret.args.name].metadata = NodeMetadata("", "")
    /\ \E m \in NodeSet(graph) \ {ret.args.name} : graph.nodes[m].metadata = NodeMetadata("u", "d")
    /\ NumEdges(graph) > 0

----------------------------------------------------------------------------
(* The Graph Store queried with any two names: SpecQuery builds the graph
   with add_node and add_edge and calls get_edges_between. *)

GetEdgesBetween ==
    /\ UNCHANGED <<graph, holder, disk, selection>>
    /\ \E source \in StoreNames, target \in StoreNames :
           LET r == get_edges_between(graph, source, target)
           IN ret' = [op |-> "get_edges_between",
                      args |-> [source |-> source, target |-> target],
                      ok |-> ~r.raised,
                      out |-> [edges |-> r.edges]]

NextQuery ==
    \/ AddNode
    \/ AddEdge
    \/ GetEdgesBetween

SpecQuery == Init /\ [][NextQuery]_vars

\* C24: get_edges_between never raises: it returns a list, empty when a
\* name is absent and when both nodes exist with no edge from source to
\* target, and otherwise with one attribute record per parallel edge from
\* source to target.
C24_EdgesBetweenNeverRaises ==
    ret.op = "get_edges_between" =>
        LET p == <<ret.args.source, ret.args.target>>
            expected == IF p[1] \in NodeSet(graph) /\ p[2] \in NodeSet(graph)
                        THEN graph.edges[p] ELSE << >>
        IN /\ ret.ok
           /\ Len(ret.out.edges) = Len(expected)
           /\ \A i \in 1..Len(expected) :
                ret.out.edges[i].relationship = expected[i].relationship

----------------------------------------------------------------------------
(* A further visibility claim, checked under SpecViz *)

\* C25: the neighbour expansion never adds a node: in every completed call
\* the final visible node set is the seed set, the nodes whose level is in
\* show_levels (all nodes when show_levels is None) together with the
\* selected nodes.
C25_ExpansionAddsNothing ==
    (IsViz /\ ret.ok) =>
        ret.out.visible =
            (IF IsNone(ret.args.show_levels) THEN NodeSet(graph)
             ELSE {n \in NodeSet(graph) : graph.nodes[n].level \in ret.args.show_levels[1]})
            \cup SelectedSet

\* a completed call with a show_levels list in which a selected node of a
\* hidden level is visible and has a neighbour, of a hidden level and not
\* selected, that the expansion found and did not add
C25_Witness ==
    /\ IsViz
    /\ ret.ok
    /\ \E n \in SelectedSet \cap ret.out.visible, m \in NodeSet(graph) \ ret.out.visible :
         /\ HiddenByLevel(n)
         /\ HiddenByLevel(m)
         /\ m \notin SelectedSet
         /\ graph.edges[<<n, m>>] # << >>

----------------------------------------------------------------------------
(* The selections of the session: SpecSelect draws a graph built by
   add_node and add_edge; nodes and edges of the graph are ticked in
   "Select Elements", nodes and edges are deleted, and the graph is drawn
   with the selections of the session. *)

InitSelect ==
    /\ NoSavedFile
    /\ selection = NoSelection
    /\ \E S \in SUBSET StoreNames :
         \E k \in 0..MaxEdges :
            \E es \in [1..k -> VizTriples(S)] :
               graph = add_edges(
                         add_nodes(EmptyGraph, S,
                                   [n \in S |-> [type |-> "main_topic", level |-> 0]]),
                         es)
    /\ ret = NoCall

\* toggle_node_selection(node), for a node listed under "Select Nodes"
ToggleNodeSelection ==
    /\ UNCHANGED <<graph, holder, disk>>
    /\ \E node \in NodeSet(graph) :
           /\ selection' = [selection EXCEPT !.nodes =
                              IF node \in @ THEN @ \ {node} ELSE @ \cup {node}]
           /\ ret' = [op |-> "toggle_node_selection", args |-> [name |-> node],
                      ok |-> TRUE, out |-> NoOut]

\* toggle_edge_selection(source, target), for an edge listed under "Select
\* Edges"
ToggleEdgeSelection ==
    /\ UNCHANGED <<graph, holder, disk>>
    /\ \E edge \in Pairs :
           /\ graph.edges[edge] # << >>
           /\ selection' = [selection EXCEPT !.edges =
                              IF edge \in @ THEN @ \ {edge} ELSE @ \cup {edge}]
           /\ ret' = [op |-> "toggle_edge_selection",
                      args |-> [source |-> edge[1], target |-> edge[2]],
                      ok |-> TRUE, out |-> NoOut]

\* "Clear All Selections"
ClearAllSelections ==
    /\ UNCHANGED <<graph, holder, disk>>
    /\ selection' = NoSelection
    /\ ret' = [op |-> "clear_selections", args |-> NoOut, ok |-> TRUE, out |-> NoOut]

\* the main content area: the graph, when it has nodes, is drawn with the
\* levels and edge types of the session (all of them) and its selections,
\* None for an empty selection
DrawGraph ==
    /\ UNCHANGED <<graph, holder, disk, selection>>
    /\ NodeSet(graph) # {}
    /\ LET show_levels == Some(Levels)
           selected_nodes == IF selection.nodes # {} THEN Some(selection.nodes) ELSE None
           selected_edges == IF selection.edges # {} THEN Some(selection.edges) ELSE None
           show_edge_types == Some({"belongs_to", "related_to", "depends_on"})
           r == generate_graph_visualization(graph, show_levels, selected_nodes,
                                             selected_edges, show_edge_types)
       IN ret' = [op |-> "generate_graph_visualization",
                  args |-> [show_levels |-> show_levels,
                            selected_nodes |-> selected_nodes,
                            selected_edges |-> selected_edges,
                            show_edge_types |-> show_edge_types],
                  ok |-> r.ok,
                  out |-> [visible |-> r.visible, nodes |-> r.nodes, edges |-> r.edges]]

NextSelect ==
    \/ ToggleNodeSelection
    \/ ToggleEdgeSelection
    \/ ClearAllSelections
    \/ DeleteNode
    \/ DeleteEdge
    \/ DrawGraph

SpecSelect == InitSelect /\ [][NextSelect]_vars

\* C26: after any sequence of UI operations every member of selected_nodes
\* is a node of the graph and every pair in selected_edges is the endpoint
\* pair of an existing edge, and the visualization of the graph returns
\* True.
C26_SelectionsReferToGraph ==
    /\ selection.nodes \subseteq NodeSet(graph)
    /\ \A edge \in selection.edges : graph.edges[edge] # << >>
    /\ IsViz => ret.ok

----------------------------------------------------------------------------
(* Editing the edge picked in the list: SpecEditEdge draws a graph of up to
   three nodes and one "Update Edge" submission draws the edge picked among
   the parallel edges of its pair, and the new source, target and
   relationship. *)

\* one "Update Edge" submission on the i-th parallel edge of (source,
\* target); as in EditEdge, the form raises before the button is handled
\* when the new source is the old target
SubmitEditEdge ==
    /\ UNCHANGED <<holder, disk, selection>>
    /\ ret.op = "init"
    /\ \E source \in NodeSet(graph), target \in NodeSet(graph),
          new_source \in NodeSet(graph), new_target \in NodeSet(graph),
          new_relationship \in Relationships :
           \E selected_edge_idx \in 1..Len(graph.edges[<<source, target>>]) :
              LET data == graph.edges[<<source, target>>][selected_edge_idx]
                  args == [source |-> source, target |-> target,
                           relationship |-> data.relationship,
                           new_source |-> new_source, new_target |-> new_target,
                           new_relationship |-> new_relationship]
              IN /\ source # target
                 /\ new_target # new_source
                 /\ IF new_source = target
                    THEN /\ graph' = graph
                         /\ ret' = [op |-> "edit_edge", args |-> args,
                                    ok |-> FALSE, out |-> NoOut]
                    ELSE LET r == update_edge(graph, source, target, new_source,
                                              new_target, new_relationship)
                         IN /\ graph' = r.graph
                            /\ ret' = [op |-> "edit_edge", args |-> args,
                                       ok |-> r.ok, out |-> NoOut]

NextEditEdge == SubmitEditEdge

SpecEditEdge == InitRename /\ [][NextEditEdge]_vars

\* 1 if the condition holds, else 0
Indicator(condition) == IF condition THEN 1 ELSE 0

\* C27: "Update Edge" replaces exactly the edge the user selected: for
\* every pair and relationship the graph holds afterwards the edges it held
\* before, less the selected edge (source, target, relationship), plus the
\* edge (new_source, new_target, new_relationship).
C27_EditEdgeReplacesSelected ==
    [][(ret'.op = "edit_edge" /\ ret'.ok) =>
         LET a == ret'.args
         IN \A p \in Pairs : \A rel \in Relationships :
              CountRel(graph'.edges[p], "relationship", rel) =
                  CountRel(graph.edges[p], "relationship", rel)
                  - Indicator(p = <<a.source, a.target>> /\ rel = a.relationship)
                  + Indicator(p = <<a.new_source, a.new_target>> /\ rel = a.new_relationship)]_vars

====
